---- MODULE Spec2Model ----
(***************************************************************************)
(* gutils: the pid-file guard (create_pidfile), create_dir and the Result  *)
(* type (Ok / Err), modelled from src/gutils/core.py and                   *)
(* src/gutils/result.py.                                                   *)
(*                                                                         *)
(* Text is a sequence of one-character strings, so that str() and int()    *)
(* are real conversions; a process is named by its pid, and a pid is       *)
(* reused when a new process is spawned under it.                          *)
(***************************************************************************)
EXTENDS Integers, Sequences, FiniteSets, TLC

\* ------------------------------------------------------------------ bounds
MaxPid == 10        \* pids are 9..MaxPid: one-digit and two-digit pids
MaxLive == 2        \* at most MaxLive processes run at a time
MaxValue == 5       \* payloads of Ok / Err are 0..MaxValue
Depth == 3          \* the directory chain /1/2/../Depth

Pids == 9..MaxPid
Users == {"u1", "u2"}
Values == 0..MaxValue
Errors == {-(v + 1) : v \in Values}      \* the exceptions an Err may carry
Paths == 1..Depth

VARIABLES
    \* --- the pid file and the processes that use it
    file,        \* [exists, data]: PIDFILE on disk
    alive,       \* alive[p]: a process with pid p is running
    uid,         \* uid[p]: the user that process runs as
    outcome,     \* outcome[p]: how p's latest create_pidfile() call ended
    held,        \* held[p]: a create_pidfile() call of this process returned
    last,        \* the create_pidfile() call that produced this state, if any
    \* --- create_pidfile() run statement by statement
    pc,          \* pc[p]: the statement of create_pidfile() p is at
    old_pid,     \* old_pid[p]: the local variable old_pid
    overlapped,  \* overlapped[p]: who was past the check together with p
    lastMod,     \* the latest modification of the pid file
    \* --- create_dir
    fs,          \* fs[d]: what is at path d ("missing", "dir", "file")
    writable,    \* the directories (0 is the root) entries can be added to
    dirResult,   \* how the latest create_dir() call ended
    \* --- Result
    result,      \* the latest constructed Ok / Err object
    given,       \* the argument its constructor was called with
    got          \* the latest accessor call: what it returned (value), and
                 \* what its object had been constructed with (arg)

pidVars == <<file, alive, uid, outcome, held>>
raceVars == <<pc, old_pid, overlapped, lastMod>>
dirVars == <<fs, writable, dirResult>>
resVars == <<result, given, got>>
vars == <<file, alive, uid, outcome, held, last, pc, old_pid, overlapped,
          lastMod, fs, writable, dirResult, result, given, got>>

\* ------------------------------------------------------------------- text
Digits == <<"0", "1", "2", "3", "4", "5", "6", "7", "8", "9">>

IsDigit(c) == \E i \in 1..10 : Digits[i] = c

DigitValue(c) == (CHOOSE i \in 1..10 : Digits[i] = c) - 1

\* str(pid): the decimal text of a natural number
RECURSIVE str(_)
str(n) == IF n < 10 THEN <<Digits[n + 1]>>
          ELSE str(n \div 10) \o <<Digits[(n % 10) + 1]>>

RECURSIVE DecimalValue(_)
DecimalValue(s) ==
    IF s = <<>> THEN 0
    ELSE 10 * DecimalValue(SubSeq(s, 1, Len(s) - 1)) + DigitValue(s[Len(s)])

\* int(text): the number, or ValueError on empty or non-numeric text
int(s) ==
    IF s # <<>> /\ \A i \in 1..Len(s) : IsDigit(s[i])
    THEN [raised |-> FALSE, value |-> DecimalValue(s)]
    ELSE [raised |-> TRUE, value |-> 0]

\* ------------------------------------------------------------ the pid file
NoFile == [exists |-> FALSE, data |-> <<>>]

FileWith(s) == [exists |-> TRUE, data |-> s]

\* os.path.isfile(PIDFILE)
isfile(f) == f.exists

\* open(PIDFILE, 'a'): the previous content is kept
open_a(f) == FileWith(f.data)

\* open(PIDFILE, 'w'): creates the file or truncates it
open_w(f) == FileWith(<<>>)

\* .write(text) at the end of the file, as under O_APPEND
write_at_end(f, s) == FileWith(f.data \o s)

\* .write(text) on a file just opened with 'w': the text goes to offset 0,
\* over whatever the file holds by then
write(f, s) ==
    FileWith(s \o (IF Len(f.data) > Len(s)
                   THEN SubSeq(f.data, Len(s) + 1, Len(f.data))
                   ELSE <<>>))

\* a probe that is skipped when the recorded pid is the caller's own
kill_unless_self(caller, n) ==
    IF n = caller \/ n \notin Pids \/ ~alive[n] THEN "ESRCH"
    ELSE IF uid[n] = uid[caller] THEN "ok"
    ELSE "EPERM"

\* os.kill(n, 0) as called by process caller
kill(caller, n) ==
    IF n \notin Pids \/ ~alive[n] THEN "ESRCH"
    ELSE IF uid[n] = uid[caller] THEN "ok"
    ELSE "EPERM"

\* handlers that swallow every probe result (no else clause)
ProbeAlwaysProceeds(probe) == TRUE

\* handlers that take "no such process" for a live instance
ProbeProceedsOnDenied(probe) == probe = "EPERM"

\* the handlers around os.kill: which probe results lead on to the write
ProbeProceeds(probe) == probe \in {"ESRCH", "EPERM"}

\* outcomes of a call
NotCalled == [exc |-> "not called", pid |-> 0]
Running == [exc |-> "running", pid |-> 0]
Returned == [exc |-> "none", pid |-> 0]
ValueError == [exc |-> "ValueError", pid |-> 0]
StillAliveException(n) == [exc |-> "StillAliveException", pid |-> n]

\* lines 84-94 of create_pidfile: the exception raised, or Returned when
\* control reaches the write. int() is called before the try block, so its
\* ValueError leaves the function; os.kill raises no ValueError for an int,
\* so the handler of lines 90-92 is never entered.
Check(caller, f) ==
    IF ~isfile(f) THEN Returned
    ELSE LET parsed == int(f.data) IN
         IF parsed.raised THEN ValueError
         ELSE IF ProbeProceeds(kill(caller, parsed.value)) THEN Returned
         ELSE StillAliveException(parsed.value)

\* ----------------------------------------------------------------- Result
\* an Ok whose constructor drops its argument
Ok_unset(value) == [cls |-> "Ok", _value |-> 0]

\* class Ok: __init__ stores value in _value
Ok(value) == [cls |-> "Ok", _value |-> value]

\* Ok.ok
ok(self) == self._value

\* class Err: __init__ stores e in _e
Err(e) == [cls |-> "Err", _e |-> e]

\* Err.err
err(self) == self._e

\* ------------------------------------------------------------- create_dir
\* os.mkdir(d): [fs, w, raised]
mkdir(f, w, d) ==
    IF d > 1 /\ f[d - 1] = "file" THEN [fs |-> f, w |-> w, raised |-> "ENOTDIR"]
    ELSE IF d > 1 /\ f[d - 1] = "missing" THEN [fs |-> f, w |-> w, raised |-> "ENOENT"]
    ELSE IF f[d] # "missing" THEN [fs |-> f, w |-> w, raised |-> "EEXIST"]
    ELSE IF (d - 1) \notin w THEN [fs |-> f, w |-> w, raised |-> "EACCES"]
    ELSE [fs |-> [f EXCEPT ![d] = "dir"], w |-> w \cup {d}, raised |-> "none"]

\* os.makedirs(d): the missing parents first, then d itself
RECURSIVE makedirs(_, _, _)
makedirs(f, w, d) ==
    LET head == IF d > 1 /\ f[d - 1] = "missing"
                THEN makedirs(f, w, d - 1)
                ELSE [fs |-> f, w |-> w, raised |-> "none"]
    IN  IF head.raised \notin {"none", "EEXIST"} THEN head
        ELSE mkdir(head.fs, head.w, d)

\* a handler that swallows every OSError
SwallowedAlways(errno) == TRUE

\* lines 72-74: the OSError that is not raised again
Swallowed(errno) == errno = "EEXIST"

\* ------------------------------------------------------------------- Init
InitContents ==
    {NoFile, FileWith(<<>>), FileWith(<<"x">>), FileWith(<<"1", "x">>)}
        \cup {FileWith(str(n)) : n \in Pids}

NoOp == [op |-> "none", proc |-> 0]
NoMod == [op |-> "none", by |-> 0, before |-> 0]

InitPid ==
    /\ file \in InitContents
    /\ alive = [p \in Pids |-> FALSE]
    /\ uid = [p \in Pids |-> "u1"]
    /\ outcome = [p \in Pids |-> NotCalled]
    /\ held = [p \in Pids |-> FALSE]
    /\ last = NoOp

InitRace ==
    /\ pc = [p \in Pids |-> "idle"]
    /\ old_pid = [p \in Pids |-> 0]
    /\ overlapped = [p \in Pids |-> {}]
    /\ lastMod = NoMod

FixedPid ==
    /\ file = NoFile
    /\ alive = [p \in Pids |-> FALSE]
    /\ uid = [p \in Pids |-> "u1"]
    /\ outcome = [p \in Pids |-> NotCalled]
    /\ held = [p \in Pids |-> FALSE]
    /\ last = NoOp

\* a directory tree: an entry exists only inside a directory
WellFormed(f) == \A d \in Paths : (d > 1 /\ f[d] # "missing") => f[d - 1] = "dir"

NotCalledDir == [path |-> 0, raised |-> "not called"]

InitDir ==
    /\ fs \in {f \in [Paths -> {"missing", "dir", "file"}] : WellFormed(f)}
    /\ writable \in SUBSET (0..(Depth - 1))
    /\ dirResult = NotCalledDir

FixedDir ==
    /\ fs = [d \in Paths |-> "missing"]
    /\ writable = {0}
    /\ dirResult = NotCalledDir

NoAccess == [made |-> FALSE, value |-> 0, arg |-> 0]

InitRes ==
    /\ result = Ok(0)
    /\ given = 0
    /\ got = NoAccess

Init == InitPid /\ InitRace /\ FixedDir /\ InitRes

\* -------------------------------------------------- processes come and go
\* a new process starts under pid p (p is free), as user u
Spawn(p, u) ==
    /\ ~alive[p]
    /\ Cardinality({q \in Pids : alive[q]}) < MaxLive
    /\ alive' = [alive EXCEPT ![p] = TRUE]
    /\ uid' = [uid EXCEPT ![p] = u]
    /\ last' = NoOp
    /\ UNCHANGED <<file, outcome, held, raceVars, dirVars, resVars>>

\* the process with pid p exits (at any statement): its own state is gone,
\* the pid file is not touched
Exit(p) ==
    /\ alive[p]
    /\ alive' = [alive EXCEPT ![p] = FALSE]
    /\ uid' = [uid EXCEPT ![p] = "u1"]
    /\ pc' = [pc EXCEPT ![p] = "idle"]
    /\ old_pid' = [old_pid EXCEPT ![p] = 0]
    /\ overlapped' = [q \in Pids |-> IF q = p THEN {} ELSE overlapped[q] \ {p}]
    /\ outcome' = [outcome EXCEPT ![p] = NotCalled]
    /\ held' = [held EXCEPT ![p] = FALSE]
    /\ last' = NoOp
    /\ UNCHANGED <<file, lastMod, dirVars, resVars>>

\* ------------------------------------------- create_pidfile, a whole call
create_pidfile(p) ==
    /\ alive[p]
    /\ pc[p] = "idle"
    /\ LET raised == Check(p, file) IN
         /\ outcome' = [outcome EXCEPT ![p] = raised]
         /\ IF raised = Returned
            THEN /\ file' = write(open_w(file), str(p))
                 /\ lastMod' = [op |-> "write", by |-> p, before |-> 0]
                 /\ held' = [held EXCEPT ![p] = TRUE]
            ELSE UNCHANGED <<file, held, lastMod>>
    /\ last' = [op |-> "create_pidfile", proc |-> p]
    /\ UNCHANGED <<alive, uid, pc, old_pid, overlapped, dirVars, resVars>>

\* --------------------------------- create_pidfile, statement by statement
InWindow(q) == pc[q] \in {"open", "write"}

\* p has passed the check: it is past line 94, on its way to line 97
EnterWindow(p) ==
    overlapped' = [q \in Pids |->
                     IF q = p THEN {r \in Pids \ {p} : InWindow(r)}
                     ELSE IF InWindow(q) THEN overlapped[q] \cup {p}
                     ELSE overlapped[q] \ {p}]

\* line 84: os.path.isfile(PIDFILE)
Start(p) ==
    /\ alive[p]
    /\ pc[p] = "idle"
    /\ outcome' = [outcome EXCEPT ![p] = Running]
    /\ IF isfile(file)
       THEN /\ pc' = [pc EXCEPT ![p] = "read"]
            /\ overlapped' = [q \in Pids |->
                                IF q = p THEN {} ELSE overlapped[q] \ {p}]
       ELSE /\ pc' = [pc EXCEPT ![p] = "open"]
            /\ EnterWindow(p)
    /\ UNCHANGED <<file, alive, uid, held, last, old_pid, lastMod, dirVars, resVars>>

\* line 85: old_pid = int(open(PIDFILE, 'r').read()), outside the try block
Read(p) ==
    /\ pc[p] = "read"
    /\ LET parsed == int(file.data) IN
         IF parsed.raised
         THEN /\ outcome' = [outcome EXCEPT ![p] = ValueError]
              /\ pc' = [pc EXCEPT ![p] = "idle"]
              /\ UNCHANGED old_pid
         ELSE /\ old_pid' = [old_pid EXCEPT ![p] = parsed.value]
              /\ pc' = [pc EXCEPT ![p] = "kill"]
              /\ UNCHANGED outcome
    /\ UNCHANGED <<file, alive, uid, held, last, overlapped, lastMod, dirVars, resVars>>

\* lines 86-94: os.kill(old_pid, 0) and its handlers
Kill(p) ==
    /\ pc[p] = "kill"
    /\ IF ProbeProceeds(kill(p, old_pid[p]))
       THEN /\ pc' = [pc EXCEPT ![p] = "open"]
            /\ EnterWindow(p)
            /\ UNCHANGED outcome
       ELSE /\ outcome' = [outcome EXCEPT ![p] = StillAliveException(old_pid[p])]
            /\ pc' = [pc EXCEPT ![p] = "idle"]
            /\ UNCHANGED overlapped
    /\ UNCHANGED <<file, alive, uid, held, last, old_pid, lastMod, dirVars, resVars>>

\* line 97, open(PIDFILE, 'w'): the file is truncated when it is opened
Open(p) ==
    /\ pc[p] = "open"
    /\ file' = open_w(file)
    /\ lastMod' = [op |-> "truncate", by |-> p, before |-> Len(file.data)]
    /\ pc' = [pc EXCEPT ![p] = "write"]
    /\ UNCHANGED <<alive, uid, outcome, held, last, old_pid, overlapped, dirVars, resVars>>

\* lines 96-97, .write(str(pid)): the text reaches the file, the call returns
Write(p) ==
    /\ pc[p] = "write"
    /\ file' = write(file, str(p))
    /\ lastMod' = [op |-> "write", by |-> p, before |-> Len(file.data)]
    /\ outcome' = [outcome EXCEPT ![p] = Returned]
    /\ held' = [held EXCEPT ![p] = TRUE]
    /\ pc' = [pc EXCEPT ![p] = "idle"]
    /\ UNCHANGED <<alive, uid, last, old_pid, overlapped, dirVars, resVars>>

NextRace ==
    \/ \E p \in Pids, u \in Users : Spawn(p, u)
    \/ \E p \in Pids : Exit(p)
    \/ \E p \in Pids : Start(p)
    \/ \E p \in Pids : Read(p)
    \/ \E p \in Pids : Kill(p)
    \/ \E p \in Pids : Open(p)
    \/ \E p \in Pids : Write(p)

SpecRace == Init /\ [][NextRace]_vars

Next ==
    \/ \E p \in Pids, u \in Users : Spawn(p, u)
    \/ \E p \in Pids : Exit(p)
    \/ \E p \in Pids : create_pidfile(p)

Spec == Init /\ [][Next]_vars

\* ------------------------------------------------------------- create_dir
create_dir(d) ==
    LET made == makedirs(fs, writable, d) IN
        /\ fs' = made.fs
        /\ writable' = made.w
        /\ dirResult' = [path |-> d,
                         raised |-> IF made.raised # "none" /\ Swallowed(made.raised)
                                    THEN "none" ELSE made.raised]
        /\ UNCHANGED <<pidVars, last, raceVars, resVars>>

NextDir == \E d \in Paths : create_dir(d)

InitCreateDir == FixedPid /\ InitRace /\ InitDir /\ InitRes

SpecDir == InitCreateDir /\ [][NextDir]_vars

\* ----------------------------------------------------------------- Result
NewOk(x) ==
    /\ result' = Ok(x)
    /\ given' = x
    /\ UNCHANGED <<pidVars, last, raceVars, dirVars, got>>

NewErr(e) ==
    /\ result' = Err(e)
    /\ given' = e
    /\ UNCHANGED <<pidVars, last, raceVars, dirVars, got>>

CallOk ==
    /\ result.cls = "Ok"
    /\ got' = [made |-> TRUE, value |-> ok(result), arg |-> given]
    /\ UNCHANGED <<pidVars, last, raceVars, dirVars, result, given>>

CallErr ==
    /\ result.cls = "Err"
    /\ got' = [made |-> TRUE, value |-> err(result), arg |-> given]
    /\ UNCHANGED <<pidVars, last, raceVars, dirVars, result, given>>

NextResult ==
    \/ \E x \in Values : NewOk(x)
    \/ \E e \in Errors : NewErr(e)
    \/ CallOk
    \/ CallErr

InitResult == FixedPid /\ InitRace /\ FixedDir /\ InitRes

SpecResult == InitResult /\ [][NextResult]_vars

\* ================================================================ claims
\* the step is a whole create_pidfile() call made by p
CallBy(p) == last' = [op |-> "create_pidfile", proc |-> p]

\* the pid file holds exactly the decimal text of pid n
Records(n) == file = FileWith(str(n))

\* C1: when create_pidfile is called and the pid file holds the pid of a
\* running process the caller may signal, the call raises
\* StillAliveException carrying that pid and the file is left as it was.
C1_LiveConflict ==
    [][\A p \in Pids, n \in Pids :
         (CallBy(p) /\ Records(n) /\ alive[n] /\ uid[n] = uid[p])
             => /\ outcome'[p] = StillAliveException(n)
                /\ file' = file]_vars

C1_Witness ==
    \E p \in Pids, n \in Pids :
        /\ p # n
        /\ last = [op |-> "create_pidfile", proc |-> p]
        /\ outcome[p] = StillAliveException(n)
        /\ Records(n) /\ alive[n] /\ uid[n] = uid[p]

\* C2: when the recorded pid belongs to a running process the caller may
\* not signal (the probe fails with EPERM), the call raises
\* StillAliveException carrying that pid and the file is not overwritten.
C2_PermissionDenied ==
    [][\A p \in Pids, n \in Pids :
         (CallBy(p) /\ Records(n) /\ alive[n] /\ uid[n] # uid[p])
             => /\ outcome'[p] = StillAliveException(n)
                /\ file' = file]_vars

\* C3: when the pid file exists and holds the empty string or non-numeric
\* text, the call returns without an error and the file holds the caller's
\* pid.
C3_MalformedSwallowed ==
    [][\A p \in Pids :
         (CallBy(p) /\ file.exists /\ int(file.data).raised)
             => /\ outcome'[p] = Returned
                /\ file' = FileWith(str(p))]_vars

\* C4: when there is no pid file, or it holds the pid of no running
\* process, the call returns and the file then holds exactly the caller's
\* decimal pid, nothing of the previous content.
C4_NoLivePrior ==
    [][\A p \in Pids :
         (CallBy(p) /\ (~file.exists \/ \E n \in Pids : Records(n) /\ ~alive[n]))
             => /\ outcome'[p] = Returned
                /\ file'.exists
                /\ file'.data = str(p)]_vars

C4_Witness ==
    \E p \in Pids, n \in Pids :
        /\ Len(str(n)) > Len(str(p))
        /\ last = [op |-> "create_pidfile", proc |-> p]
        /\ outcome[p] = Returned
        /\ file = FileWith(str(p))
        /\ ~alive[n]

\* the running processes whose create_pidfile call returned
Holders == {p \in Pids : alive[p] /\ held[p]}

\* C5: with calls that run one after the other, at most one running
\* process is one whose create_pidfile call returned.
C5_MutualExclusion == Cardinality(Holders) <= 1

\* C9: the pid file is never removed or emptied and a process exit leaves
\* it unchanged; a later call finds the file, and returns after writing
\* its own pid when the recorded pid's process is gone.
C9_NoCleanup ==
    [][/\ file.exists => file'.exists
       /\ file.data # <<>> => file'.data # <<>>
       /\ (\E p \in Pids : alive[p] /\ ~alive'[p]) => file' = file
       /\ \A p \in Pids, n \in Pids :
            (CallBy(p) /\ lastMod.op = "write" /\ Records(n) /\ ~alive[n])
                => /\ outcome'[p] = Returned
                   /\ file' = FileWith(str(p))]_vars

C9_Witness ==
    \E n \in Pids :
        /\ ~alive[n]
        /\ lastMod = [op |-> "write", by |-> n, before |-> 0]
        /\ Records(n)
        /\ \E p \in Pids : alive[p] /\ outcome[p] = NotCalled

\* C10: a process whose call returned, and which calls again while the file
\* still holds its pid, gets StillAliveException carrying its own pid.
C10_NotReentrant ==
    [][\A p \in Pids :
         (CallBy(p) /\ held[p] /\ Records(p))
             => /\ outcome'[p] = StillAliveException(p)
                /\ file' = file]_vars

C10_Witness ==
    \E p \in Pids :
        /\ last = [op |-> "create_pidfile", proc |-> p]
        /\ held[p]
        /\ outcome[p] = StillAliveException(p)
        /\ Records(p)

\* p and q were past the check at the same time and both calls have ended
BothPassed(p, q) ==
    /\ p # q
    /\ q \in overlapped[p]
    /\ pc[p] = "idle"
    /\ pc[q] = "idle"

\* the latest change of the pid file is p's write
WroteLast(p) == lastMod.op = "write" /\ lastMod.by = p

\* C8: when two running processes were both past the check at the same
\* time and both calls have ended, both returned (neither got
\* StillAliveException), and the pid file holds the pid of whichever of
\* them wrote last.
C8_LastWriterWins ==
    \A p \in Pids, q \in Pids :
        BothPassed(p, q)
            => /\ outcome[p] = Returned
               /\ outcome[q] = Returned
               /\ WroteLast(p) => file = FileWith(str(p))

\* C8 as amended: both returned, and the pid file begins with the pid of
\* whichever wrote last; it is exactly that pid unless the file held a
\* longer text when the last write reached it.
C8_LastWriterPrefix ==
    \A p \in Pids, q \in Pids :
        BothPassed(p, q)
            => /\ outcome[p] = Returned
               /\ outcome[q] = Returned
               /\ WroteLast(p) =>
                    /\ file.exists
                    /\ Len(file.data) >= Len(str(p))
                    /\ SubSeq(file.data, 1, Len(str(p))) = str(p)
                    /\ (file.data = str(p)) <=> (lastMod.before <= Len(str(p)))

C8_Witness ==
    \E p \in Pids, q \in Pids :
        /\ BothPassed(p, q)
        /\ alive[p] /\ alive[q] /\ uid[p] = uid[q]
        /\ outcome[p] = Returned /\ outcome[q] = Returned
        /\ WroteLast(p)
        /\ Records(p)

\* C6: the accessor of an Ok returns the value it was constructed with, the
\* accessor of an Err returns the error it was constructed with, and every
\* Result is exactly one of the two variants, holding exactly one payload.
C6_RoundTrip ==
    /\ result.cls \in {"Ok", "Err"}
    /\ result.cls = "Ok" =>
          DOMAIN result = {"cls", "_value"} /\ result._value \in Values
    /\ result.cls = "Err" =>
          DOMAIN result = {"cls", "_e"} /\ result._e \in Errors
    /\ got.made => got.value = got.arg

C6_Witness ==
    /\ got.made
    /\ got.arg \in Errors
    /\ got.value = got.arg
    /\ result.cls = "Ok"
    /\ given # 0

\* the deepest path above d that exists (0, the root, always does)
Ancestor(d) == CHOOSE k \in 0..(d - 1) :
                  /\ k = 0 \/ fs[k] # "missing"
                  /\ \A j \in (k + 1)..(d - 1) : fs[j] = "missing"

\* what stands in the way of creating the missing path d
Failure(d) ==
    IF Ancestor(d) > 0 /\ fs[Ancestor(d)] = "file" THEN "ENOTDIR"
    ELSE IF Ancestor(d) \notin writable THEN "EACCES"
    ELSE "none"

\* C7: create_dir on an existing directory returns and changes nothing; on
\* a missing directory it creates it (and its missing parents) unless the
\* creation fails, and that failure, never "already exists", reaches the
\* caller as it was raised.
C7_CreateDir ==
    [][\A d \in Paths :
         dirResult'.path = d =>
            /\ fs[d] = "dir" => (dirResult'.raised = "none" /\ fs' = fs)
            /\ fs[d] = "missing" =>
                  /\ dirResult'.raised = Failure(d)
                  /\ Failure(d) = "none" =>
                        /\ \A j \in (Ancestor(d) + 1)..d : fs'[j] = "dir"
                        /\ \A j \in Paths \ ((Ancestor(d) + 1)..d) : fs'[j] = fs[j]
            /\ dirResult'.raised # "EEXIST"]_vars

C7_Witness ==
    /\ dirResult.path = Depth
    /\ dirResult.raised = "EACCES"
    /\ fs[1] = "dir"
    /\ fs[Depth] = "missing"

====
